---- MODULE Spec2Model ----
(***************************************************************************)
(* The Cell model of src/core/cell.ts: a pool of cells, each with a parent *)
(* reference, an ordered children list, an incident-edge list and the two  *)
(* terminals source and target.  The public operations of Cell are         *)
(* functions from heap to heap (one operator per method, composed the way  *)
(* the methods call each other); dispose(), which recurses through         *)
(* callbacks while the lists it iterates shrink, is stepped with an        *)
(* explicit call stack.                                                    *)
(***************************************************************************)
EXTENDS Integers, Sequences, FiniteSets, TLC

\* Number of cells in the pool.
NumCells == 3
\* Number of cells passed as the edge argument of insertEdge/removeEdge and
\* as the receiver of removeFromTerminal (the highest-numbered cells).
NumEdges == 1
\* insertEdge is not called on a receiver whose edges list is this long.
MaxEdgeLen == 2
\* Depth of nested dispose() frames at which the call stack overflows.
MaxDepth == 5
\* Where setParent is called too, insertChild is not called on a receiver
\* whose children list is this long.
MaxChildLen == 1

Null == 0
Cells == 1..NumCells
CellOrNull == 0..NumCells
EdgeArgs == {c \in Cells : c > NumCells - NumEdges}
\* The optional index argument of insertChild: NoIndex is the omitted index.
NoIndex == 0 - 99
IndexArgs == (0 - 1)..NumCells
\* The argument of setId: null or an identifier.
IdArgs == 0..1

VARIABLES
    id,         \* id[c]:       string | null          (cell.ts:8)
    parent,     \* parent[c]:   Cell | null            (cell.ts:14)
    children,   \* children[c]: Cell[]                 (cell.ts:15)
    edges,      \* edges[c]:    Cell[]                 (cell.ts:16)
    source,     \* source[c]:   Cell | null            (cell.ts:20)
    target,     \* target[c]:   Cell | null            (cell.ts:21)
    disposed,   \* disposed[c]: the Disposable flag
    stack,      \* the frames of the running dispose() calls, innermost last
    op          \* the last public call made from outside: what was called,
                \* on what, and what the caller could see just before it

vars == <<id, parent, children, edges, source, target, disposed, stack, op>>

\* The identifier and the five structural fields of all cells, as one value.
Heap ==
    [id |-> id, parent |-> parent, children |-> children, edges |-> edges,
     source |-> source, target |-> target]

(***************************************************************************)
(* Arrays.  A list that was never allocated (null) and an empty list are   *)
(* told apart by no operation of Cell (every test of `== null` leads to    *)
(* the branch an empty list takes too), so both are the empty sequence.    *)
(* Indices are JavaScript's: 0-based.                                      *)
(***************************************************************************)
Min(a, b) == IF a < b THEN a ELSE b
Max(a, b) == IF a > b THEN a ELSE b

\* util.indexOf: the first index holding x, or -1.
indexOf(arr, x) ==
    IF \E i \in 1..Len(arr) : arr[i] = x
    THEN (CHOOSE i \in 1..Len(arr) :
              arr[i] = x /\ \A j \in 1..(i - 1) : arr[j] # x) - 1
    ELSE 0 - 1

\* Array.prototype.splice(start, 1): a start beyond the end removes nothing,
\* a negative start counts from the end.
spliceOut(arr, start) ==
    LET s == IF start < 0 THEN Max(Len(arr) + start, 0) ELSE Min(start, Len(arr))
    IN  SubSeq(arr, 1, s) \o SubSeq(arr, s + 2, Len(arr))

\* An insertion that ignores the position: Array.prototype.push(x).
spliceInAtEnd(arr, start, x) == Append(arr, x)

\* Array.prototype.splice(start, 0, x): start is clamped the same way.
spliceIn(arr, start, x) ==
    LET s == IF start < 0 THEN Max(Len(arr) + start, 0) ELSE Min(start, Len(arr))
    IN  SubSeq(arr, 1, s) \o <<x>> \o SubSeq(arr, s + 1, Len(arr))

\* How many entries of arr are x.
Count(arr, x) == Cardinality({i \in 1..Len(arr) : arr[i] = x})
Elems(arr) == {arr[i] : i \in 1..Len(arr)}

(***************************************************************************)
(* Edge-role operations.                                                   *)
(***************************************************************************)
getTerminal(h, this, isSource) ==
    IF isSource THEN h.source[this] ELSE h.target[this]

\* setTerminal that also enters the edge in the terminal's edges list.
setTerminalListing(h, this, terminal, isSource) ==
    LET h1 == IF isSource
              THEN [h EXCEPT !.source[this] = terminal]
              ELSE [h EXCEPT !.target[this] = terminal]
    IN  IF terminal # Null
        THEN [h1 EXCEPT !.edges[terminal] = Append(@, this)]
        ELSE h1

setTerminal(h, this, terminal, isSource) ==
    IF isSource
    THEN [h EXCEPT !.source[this] = terminal]
    ELSE [h EXCEPT !.target[this] = terminal]

getEdgeIndex(h, this, edge) == indexOf(h.edges[this], edge)

removeEdge(h, this, edge, isOutgoing) ==
    IF edge # Null
    THEN LET index == getEdgeIndex(h, this, edge)
             h1 == IF getTerminal(h, edge, ~isOutgoing) # this /\ index >= 0
                   THEN [h EXCEPT !.edges[this] = spliceOut(@, index)]
                   ELSE h
         IN  setTerminal(h1, edge, Null, isOutgoing)
    ELSE h

removeFromTerminal(h, this, isSource) ==
    LET terminal == getTerminal(h, this, isSource)
    IN  IF terminal # Null THEN removeEdge(h, terminal, this, isSource) ELSE h

insertEdge(h, this, edge, isOutgoing) ==
    IF edge # Null
    THEN LET h1 == removeFromTerminal(h, edge, isOutgoing)
             h2 == setTerminal(h1, edge, this, isOutgoing)
         IN  IF \/ getTerminal(h2, edge, ~isOutgoing) # this
                \/ indexOf(h2.edges[this], edge) < 0
             THEN [h2 EXCEPT !.edges[this] = Append(@, edge)]
             ELSE h2
    ELSE h

(***************************************************************************)
(* Containment operations.                                                 *)
(***************************************************************************)
setParent(h, this, p) == [h EXCEPT !.parent[this] = p]

getChildCount(h, this) == Len(h.children[this])

getChildIndex(h, this, child) == indexOf(h.children[this], child)

\* this.children[index], null standing for undefined as well.
getChildAt(h, this, index) ==
    IF index >= 0 /\ index < Len(h.children[this])
    THEN h.children[this][index + 1]
    ELSE Null

\* removeChildAt taking a negative index as counted from the end of the list.
removeChildAtResultFromEnd(h, this, index) ==
    IF index >= 0 THEN getChildAt(h, this, index)
    ELSE getChildAt(h, this, Len(h.children[this]) + index)

\* The cell removeChildAt returns: the removed child, or null.
removeChildAtResult(h, this, index) ==
    IF index >= 0 THEN getChildAt(h, this, index) ELSE Null

\* removeChildAt without its setParent(null).
removeChildAtKeepsParent(h, this, index) ==
    LET child == removeChildAtResult(h, this, index)
    IN  IF child # Null
        THEN [h EXCEPT !.children[this] = spliceOut(@, index)]
        ELSE h

\* removeChildAt that also disconnects the removed child from its source
\* terminal, as a disposal would.
removeChildAtDisconnecting(h, this, index) ==
    LET child == removeChildAtResult(h, this, index)
    IN  IF child # Null
        THEN removeFromTerminal(
                 setParent([h EXCEPT !.children[this] = spliceOut(@, index)],
                           child, Null),
                 child, TRUE)
        ELSE h

removeChildAt(h, this, index) ==
    LET child == removeChildAtResult(h, this, index)
    IN  IF child # Null
        THEN setParent([h EXCEPT !.children[this] = spliceOut(@, index)],
                       child, Null)
        ELSE h

removeChild(h, this, child) ==
    removeChildAt(h, this, getChildIndex(h, this, child))

\* removeFromParent that detaches the siblings of the cell as well.
removeFromParentWithSiblings(h, this) ==
    IF h.parent[this] # Null
    THEN LET p == h.parent[this]
         IN  [h EXCEPT !.children[p] = <<>>,
                       !.parent = [x \in Cells |->
                                      IF h.parent[x] = p THEN Null ELSE h.parent[x]]]
    ELSE h

removeFromParent(h, this) ==
    IF h.parent[this] # Null
    THEN removeChildAt(h, h.parent[this], getChildIndex(h, h.parent[this], this))
    ELSE h

\* The position insertChild resolves before it detaches the child.
insertPos(h, this, child, index) ==
    IF index = NoIndex
    THEN IF h.parent[child] = this
         THEN getChildCount(h, this) - 1
         ELSE getChildCount(h, this)
    ELSE index

\* insertChild without its child.removeFromParent().
insertChildNoDetach(h, this, child, index) ==
    IF child # Null
    THEN LET pos == insertPos(h, this, child, index)
             h2 == setParent(h, child, this)
         IN  [h2 EXCEPT !.children[this] = spliceIn(@, pos, child)]
    ELSE h

insertChild(h, this, child, index) ==
    IF child # Null
    THEN LET pos == insertPos(h, this, child, index)
             h1 == removeFromParent(h, child)
             h2 == setParent(h1, child, this)
         IN  [h2 EXCEPT !.children[this] = spliceIn(@, pos, child)]
    ELSE h

(***************************************************************************)
(* Ancestors and descendants.  The walks are the loops of the code: on a   *)
(* containment cycle they do not end.                                      *)
(***************************************************************************)
\* The loop of isAncestor: the cell it stops at, or null.
RECURSIVE walkUp(_, _, _)
walkUp(h, this, des) ==
    IF des # Null /\ des # this THEN walkUp(h, this, h.parent[des]) ELSE des

isAncestor(h, this, descendant) ==
    IF descendant = Null THEN FALSE ELSE walkUp(h, this, descendant) = this

\* The loop of getAncestors, from the cell held in its variable `parent`.
RECURSIVE ancestorsFrom(_, _)
ancestorsFrom(h, p) ==
    IF p # Null THEN <<p>> \o ancestorsFrom(h, h.parent[p]) ELSE <<>>

\* getAncestors listing the root first.
getAncestorsRootFirst(h, this) ==
    LET a == ancestorsFrom(h, h.parent[this])
    IN  [i \in 1..Len(a) |-> a[Len(a) + 1 - i]]

getAncestors(h, this) == ancestorsFrom(h, h.parent[this])

\* getDescendants: eachChild from index i on (1-based here): push the
\* child, then concat its own descendants.
RECURSIVE getDescendants(_, _)
RECURSIVE descendantsOver(_, _, _)
descendantsOver(h, kids, i) ==
    IF i > Len(kids) THEN <<>>
    ELSE <<kids[i]>> \o getDescendants(h, kids[i]) \o descendantsOver(h, kids, i + 1)

getDescendants(h, this) == descendantsOver(h, h.children[this], 1)

(***************************************************************************)
(* Identifier and clone().                                                 *)
(***************************************************************************)
setId(h, this, v) == [h EXCEPT !.id[this] = v]

\* Cell.ignoredKeysWhenClone.
ignoredKeysWhenClone ==
    {"id", "data", "parent", "source", "target", "children", "edges"}

\* clone() copying every field of the original, the ignored ones too.
cloneEveryKey(h, this, fresh) ==
    [k \in DOMAIN h |-> [h[k] EXCEPT ![fresh] = h[k][this]]]

\* util.clone(this, ignoredKeys): a new object, given every field of the
\* original whose key is not ignored.  fresh is the new object, its fields
\* as the constructor left them.  (setData(cloneValue()) sets the payload,
\* which is no field of the heap.)
clone(h, this, fresh) ==
    [k \in DOMAIN h |->
        [h[k] EXCEPT ![fresh] = IF k \in ignoredKeysWhenClone
                                THEN h[k][fresh]
                                ELSE h[k][this]]]


(***************************************************************************)
(* dispose().  The decorator Disposable.aop() wraps the body below: a call *)
(* on a cell whose disposed flag is set returns at once; otherwise the     *)
(* body runs and the flag is set after it.  A frame is a call in progress: *)
(* its cell, the statement it is at, and the index of the running forEach. *)
(*   "children"  this.eachChild(child => child.dispose())                  *)
(*   "edges"     this.eachEdge(edge => edge.dispose())                     *)
(*   "parent"    this.removeFromParent()                                   *)
(*   "source"    this.removeFromTerminal(true)                             *)
(*   "target"    this.removeFromTerminal(false), then the flag is set      *)
(***************************************************************************)
Frame(c) == [cell |-> c, pc |-> "children", i |-> 0]

Top == stack[Len(stack)]

Idle == stack = <<>>

Commit(h) ==
    /\ id' = h.id
    /\ parent' = h.parent
    /\ children' = h.children
    /\ edges' = h.edges
    /\ source' = h.source
    /\ target' = h.target

\* The list the forEach of the top frame iterates.
Iterated == IF Top.pc = "children" THEN children[Top.cell] ELSE edges[Top.cell]

\* The cell the next step calls dispose() on, or Null.
Callee ==
    IF ~Idle /\ Top.pc \in {"children", "edges"} /\ Top.i < Len(Iterated)
    THEN Iterated[Top.i + 1]
    ELSE Null

\* dispose() without the guard of its decorator.
EntersUnguarded(c) == TRUE

\* The guard of Disposable.aop(): does a dispose() call on c run the body?
Enters(c) == ~disposed[c]

\* util.forEach tests its index against the list as it now is: a loop whose
\* index has reached the end is over, and the frame is at its next statement.
RECURSIVE Settle(_, _)
Settle(st, h) ==
    IF st = <<>> THEN st
    ELSE LET f == st[Len(st)]
         IN  IF f.pc = "children" /\ f.i >= Len(h.children[f.cell])
             THEN Settle([st EXCEPT ![Len(st)] = [f EXCEPT !.pc = "edges", !.i = 0]], h)
             ELSE IF f.pc = "edges" /\ f.i >= Len(h.edges[f.cell])
             THEN [st EXCEPT ![Len(st)] = [f EXCEPT !.pc = "parent", !.i = 0]]
             ELSE st

\* util.forEach at index i of the list: the callback calls dispose() on the
\* element; the loop then goes on to index i + 1 of the list as it is then.
DisposeVisit ==
    /\ Callee # Null
    /\ LET advanced == [stack EXCEPT ![Len(stack)].i = @ + 1]
       IN  IF Enters(Callee)
           THEN IF Len(stack) < MaxDepth
                THEN /\ stack' = Settle(Append(advanced, Frame(Callee)), Heap)
                     /\ op' = op
                ELSE \* RangeError: Maximum call stack size exceeded. No frame
                     \* catches it: every running call is abandoned.
                     /\ stack' = <<>>
                     /\ op' = [op EXCEPT !.status = "thrown"]
           ELSE /\ stack' = Settle(advanced, Heap)
                /\ op' = op
    /\ UNCHANGED <<id, parent, children, edges, source, target, disposed>>

DisposeDetachParent ==
    /\ ~Idle
    /\ Top.pc = "parent"
    /\ Commit(removeFromParent(Heap, Top.cell))
    /\ stack' = [stack EXCEPT ![Len(stack)].pc = "source"]
    /\ UNCHANGED <<disposed, op>>

DisposeDetachSource ==
    /\ ~Idle
    /\ Top.pc = "source"
    /\ Commit(removeFromTerminal(Heap, Top.cell, TRUE))
    /\ stack' = [stack EXCEPT ![Len(stack)].pc = "target"]
    /\ UNCHANGED <<disposed, op>>

\* The last statement of the body, then Disposable.dispose() sets the flag
\* and the call returns to the forEach that made it.
DisposeDetachTarget ==
    /\ ~Idle
    /\ Top.pc = "target"
    /\ LET h == removeFromTerminal(Heap, Top.cell, FALSE)
       IN  /\ Commit(h)
           /\ stack' = Settle(SubSeq(stack, 1, Len(stack) - 1), h)
    /\ disposed' = [disposed EXCEPT ![Top.cell] = TRUE]
    /\ op' = IF Len(stack) = 1 THEN [op EXCEPT !.status = "returned"] ELSE op

DisposeStep ==
    \/ DisposeVisit
    \/ DisposeDetachParent
    \/ DisposeDetachSource
    \/ DisposeDetachTarget


(***************************************************************************)
(* The public calls a collaborator makes.  No call starts while a          *)
(* dispose() is running: the core is single-threaded and synchronous.      *)
(***************************************************************************)
\* The cells below c in the containment lists of h (children, their
\* children, ...), as a set.
RECURSIVE Below(_, _, _)
Below(h, S, n) ==
    IF n = 0 THEN S
    ELSE Below(h, S \cup UNION {Elems(h.children[x]) : x \in S}, n - 1)

DescendantSet(h, c) == Below(h, Elems(h.children[c]), NumCells)

\* The cells reached from c through the lists dispose() iterates: the
\* children list and the edges list, of c and of every cell so reached.
RECURSIVE Linked(_, _, _)
Linked(h, S, n) ==
    IF n = 0 THEN S
    ELSE Linked(h,
                S \cup UNION {Elems(h.children[x]) \cup Elems(h.edges[x]) : x \in S},
                n - 1)

Reach(h, c) == Linked(h, Elems(h.children[c]) \cup Elems(h.edges[c]), NumCells)

\* The cells reached from c by following parent links, one link or more.
RECURSIVE Above(_, _, _)
Above(h, S, n) ==
    IF n = 0 THEN S
    ELSE Above(h, S \cup ({h.parent[x] : x \in S} \ {Null}), n - 1)

AncestorSet(h, c) == Above(h, {h.parent[c]} \ {Null}, NumCells)

\* The cells around c: its parent and further ancestors, its siblings, its
\* own source and target, and the ends of the edges incident on it.
Neighbours(h, c) ==
    LET ancestors == AncestorSet(h, c)
        siblings == IF h.parent[c] # Null
                    THEN Elems(h.children[h.parent[c]]) ELSE {}
        terminals == {h.source[c], h.target[c]}
        ends == UNION {{h.source[e], h.target[e]} : e \in Elems(h.edges[c])}
    IN  (ancestors \cup siblings \cup terminals \cup ends) \ {Null, c}

\* The record of a call: its name and arguments, and what the caller could
\* see when it made it: the receiver's parent, children and incident edges.
\*   chain  for insertEdge(edge, false): the receiver of the call made just
\*          before, if that call was insertEdge(edge, true) of the same edge
\*   ran    for dispose: whether the guard let the body run
\*   desc   for dispose: the receiver's descendants
\*   reach  for dispose: the cells linked to the receiver through children
\*          and edges lists
\*   nbr    for dispose: the cells around the receiver
Call(name, recv, arg, idx, role) ==
    [name |-> name, recv |-> recv, arg |-> arg, idx |-> idx, role |-> role,
     status |-> "returned",
     par |-> parent[recv], kids |-> children[recv], inc |-> edges[recv],
     chain |-> IF /\ name = "insertEdge" /\ ~role /\ arg # Null
                  /\ op.name = "insertEdge" /\ op.role /\ op.arg = arg
               THEN op.recv ELSE Null,
     ran |-> FALSE, desc |-> {}, reach |-> {}, nbr |-> {}]

NoCall ==
    [name |-> "none", recv |-> Null, arg |-> Null, idx |-> NoIndex,
     role |-> FALSE, status |-> "returned",
     par |-> Null, kids |-> <<>>, inc |-> <<>>,
     chain |-> Null, ran |-> FALSE, desc |-> {}, reach |-> {}, nbr |-> {}]

InsertChild(this, child, index) ==
    /\ Idle
    /\ Commit(insertChild(Heap, this, child, index))
    /\ op' = Call("insertChild", this, child, index, FALSE)
    /\ UNCHANGED <<disposed, stack>>

RemoveChild(this, child) ==
    /\ Idle
    /\ Commit(removeChild(Heap, this, child))
    /\ op' = Call("removeChild", this, child, NoIndex, FALSE)
    /\ UNCHANGED <<disposed, stack>>

RemoveChildAt(this, index) ==
    /\ Idle
    /\ Commit(removeChildAt(Heap, this, index))
    /\ op' = Call("removeChildAt", this, Null, index, FALSE)
    /\ UNCHANGED <<disposed, stack>>

RemoveFromParent(this) ==
    /\ Idle
    /\ Commit(removeFromParent(Heap, this))
    /\ op' = Call("removeFromParent", this, Null, NoIndex, FALSE)
    /\ UNCHANGED <<disposed, stack>>

InsertEdge(this, edge, isOutgoing) ==
    /\ Idle
    /\ Len(edges[this]) < MaxEdgeLen
    /\ Commit(insertEdge(Heap, this, edge, isOutgoing))
    /\ op' = Call("insertEdge", this, edge, NoIndex, isOutgoing)
    /\ UNCHANGED <<disposed, stack>>

RemoveEdge(this, edge, isOutgoing) ==
    /\ Idle
    /\ Commit(removeEdge(Heap, this, edge, isOutgoing))
    /\ op' = Call("removeEdge", this, edge, NoIndex, isOutgoing)
    /\ UNCHANGED <<disposed, stack>>

RemoveFromTerminal(this, isSource) ==
    /\ Idle
    /\ Commit(removeFromTerminal(Heap, this, isSource))
    /\ op' = Call("removeFromTerminal", this, Null, NoIndex, isSource)
    /\ UNCHANGED <<disposed, stack>>

SetParent(this, p) ==
    /\ Idle
    /\ Commit(setParent(Heap, this, p))
    /\ op' = Call("setParent", this, p, NoIndex, FALSE)
    /\ UNCHANGED <<disposed, stack>>

SetTerminal(this, terminal, isSource) ==
    /\ Idle
    /\ Commit(setTerminal(Heap, this, terminal, isSource))
    /\ op' = Call("setTerminal", this, terminal, NoIndex, isSource)
    /\ UNCHANGED <<disposed, stack>>

SetId(this, v) ==
    /\ Idle
    /\ Commit(setId(Heap, this, v))
    /\ op' = Call("setId", this, Null, NoIndex, FALSE)
    /\ UNCHANGED <<disposed, stack>>

\* A cell as the constructor leaves it, which nothing refers to: the state
\* of an object that has just been allocated.
Fresh(f) ==
    /\ id[f] = Null
    /\ parent[f] = Null /\ source[f] = Null /\ target[f] = Null
    /\ children[f] = <<>> /\ edges[f] = <<>>
    /\ ~disposed[f]
    /\ \A x \in Cells :
           /\ parent[x] # f /\ source[x] # f /\ target[x] # f
           /\ f \notin Elems(children[x]) /\ f \notin Elems(edges[x])

\* clone(): the new cell is recorded as the argument of the call.  Whether
\* the Disposable flag is among the fields util.clone copies is not known.
Clone(this) ==
    /\ Idle
    /\ \E fresh \in Cells \ {this} :
           /\ Fresh(fresh)
           /\ Commit(clone(Heap, this, fresh))
           /\ \E d \in {FALSE, disposed[this]} :
                  disposed' = [disposed EXCEPT ![fresh] = d]
           /\ op' = Call("clone", this, fresh, NoIndex, FALSE)
    /\ UNCHANGED stack

\* A dispose() call from outside: the guard, then the first frame.
Dispose(this) ==
    /\ Idle
    /\ IF Enters(this)
       THEN /\ stack' = Settle(<<Frame(this)>>, Heap)
            /\ op' = [Call("dispose", this, Null, NoIndex, FALSE)
                          EXCEPT !.status = "running", !.ran = TRUE,
                                 !.desc = DescendantSet(Heap, this),
                                 !.reach = Reach(Heap, this),
                                 !.nbr = Neighbours(Heap, this)]
       ELSE /\ stack' = stack
            /\ op' = Call("dispose", this, Null, NoIndex, FALSE)
    /\ UNCHANGED <<id, parent, children, edges, source, target, disposed>>

Init ==
    /\ id = [c \in Cells |-> Null]
    /\ parent = [c \in Cells |-> Null]
    /\ children = [c \in Cells |-> <<>>]
    /\ edges = [c \in Cells |-> <<>>]
    /\ source = [c \in Cells |-> Null]
    /\ target = [c \in Cells |-> Null]
    /\ disposed = [c \in Cells |-> FALSE]
    /\ stack = <<>>
    /\ op = NoCall

(***************************************************************************)
(* The collaborators that drive the cells.                                 *)
(*   Spec       both axes: children are appended, moved and removed,       *)
(*              edges are attached and are detached at the terminal that   *)
(*              holds them, cells are disposed                             *)
(*   SpecTree   the containment axis with every index, and dispose         *)
(*   SpecGraph  the connectivity axis with removeEdge on any receiver,     *)
(*              and dispose                                                *)
(*   SpecDetach both axes with every way of removing a child, no dispose   *)
(*   SpecDegrade both axes with the arguments that give an operation       *)
(*              nothing to do                                              *)
(*   SpecAxes   both axes and the setters setParent and setTerminal        *)
(*   SpecClone  identifiers and clone()                                    *)
(***************************************************************************)
Next ==
    \/ \E this \in Cells, child \in Cells : InsertChild(this, child, NoIndex)
    \/ \E this \in Cells : RemoveFromParent(this)
    \/ \E this \in Cells, edge \in EdgeArgs, isOutgoing \in BOOLEAN :
           InsertEdge(this, edge, isOutgoing)
    \/ \E this \in EdgeArgs, isSource \in BOOLEAN : RemoveFromTerminal(this, isSource)
    \/ \E this \in Cells : Dispose(this)
    \/ DisposeStep

Spec == Init /\ [][Next]_vars

NextTree ==
    \/ \E this \in Cells, child \in Cells, index \in IndexArgs \cup {NoIndex} :
           InsertChild(this, child, index)
    \/ \E this \in Cells, child \in CellOrNull : RemoveChild(this, child)
    \/ \E this \in Cells, index \in IndexArgs : RemoveChildAt(this, index)
    \/ \E this \in Cells : RemoveFromParent(this)
    \/ \E this \in Cells : Dispose(this)
    \/ DisposeStep

SpecTree == Init /\ [][NextTree]_vars

NextGraph ==
    \/ \E this \in Cells, edge \in EdgeArgs \cup {Null}, isOutgoing \in BOOLEAN :
           InsertEdge(this, edge, isOutgoing)
    \/ \E this \in Cells, edge \in EdgeArgs \cup {Null}, isOutgoing \in BOOLEAN :
           RemoveEdge(this, edge, isOutgoing)
    \/ \E this \in EdgeArgs, isSource \in BOOLEAN : RemoveFromTerminal(this, isSource)
    \/ \E this \in Cells : Dispose(this)
    \/ DisposeStep

SpecGraph == Init /\ [][NextGraph]_vars

NextDetach ==
    \/ \E this \in Cells, child \in Cells : InsertChild(this, child, NoIndex)
    \/ \E this \in Cells, child \in Cells : RemoveChild(this, child)
    \/ \E this \in Cells, index \in IndexArgs : RemoveChildAt(this, index)
    \/ \E this \in Cells : RemoveFromParent(this)
    \/ \E this \in Cells, edge \in EdgeArgs, isOutgoing \in BOOLEAN :
           InsertEdge(this, edge, isOutgoing)
    \/ \E this \in EdgeArgs, isSource \in BOOLEAN : RemoveFromTerminal(this, isSource)

SpecDetach == Init /\ [][NextDetach]_vars

\* Both axes with every argument a caller can pass where the operation has
\* nothing to do: any index, any cell or null as the child, null as the edge.
NextDegrade ==
    \/ \E this \in Cells, child \in Cells : InsertChild(this, child, NoIndex)
    \/ \E this \in Cells, child \in CellOrNull : RemoveChild(this, child)
    \/ \E this \in Cells, index \in IndexArgs : RemoveChildAt(this, index)
    \/ \E this \in Cells, edge \in EdgeArgs \cup {Null}, isOutgoing \in BOOLEAN :
           InsertEdge(this, edge, isOutgoing)
    \/ \E this \in Cells, isOutgoing \in BOOLEAN : RemoveEdge(this, Null, isOutgoing)
    \/ \E this \in EdgeArgs, isSource \in BOOLEAN : RemoveFromTerminal(this, isSource)

SpecDegrade == Init /\ [][NextDegrade]_vars

\* Both axes with the two setters a collaborator can also call, which
\* write one reference and no list.  The calls are made on two cells of the
\* pool, one of them the edge.
AxesCells == {1, NumCells}

NextAxes ==
    \/ \E this \in AxesCells, child \in AxesCells :
           Len(children[this]) < MaxChildLen /\ InsertChild(this, child, NoIndex)
    \/ \E this \in AxesCells, child \in AxesCells : RemoveChild(this, child)
    \/ \E this \in AxesCells, index \in 0..MaxChildLen : RemoveChildAt(this, index)
    \/ \E this \in AxesCells : RemoveFromParent(this)
    \/ \E this \in AxesCells, p \in AxesCells \cup {Null} : SetParent(this, p)
    \/ \E this \in AxesCells, edge \in EdgeArgs, isOutgoing \in BOOLEAN :
           InsertEdge(this, edge, isOutgoing)
    \/ \E this \in AxesCells, edge \in EdgeArgs, isOutgoing \in BOOLEAN :
           RemoveEdge(this, edge, isOutgoing)
    \/ \E this \in EdgeArgs, isSource \in BOOLEAN : RemoveFromTerminal(this, isSource)
    \/ \E this \in EdgeArgs, terminal \in AxesCells \cup {Null}, isSource \in BOOLEAN :
           SetTerminal(this, terminal, isSource)

SpecAxes == Init /\ [][NextAxes]_vars

\* Cells are given identifiers, nested, connected and cloned.
NextClone ==
    \/ \E this \in Cells, v \in IdArgs : SetId(this, v)
    \/ \E this \in Cells, child \in Cells : InsertChild(this, child, NoIndex)
    \/ \E this \in Cells, edge \in EdgeArgs, isOutgoing \in BOOLEAN :
           InsertEdge(this, edge, isOutgoing)
    \/ \E this \in Cells : Clone(this)

SpecClone == Init /\ [][NextClone]_vars

(***************************************************************************)
(* Properties.                                                             *)
(***************************************************************************)
\* arr without its entries equal to x, the others in their order.
Without(arr, x) == SelectSeq(arr, LAMBDA y : y # x)

\* C1. Containment consistency: whatever insertChild (with or without an
\* index), removeChild, removeChildAt, removeFromParent and dispose calls
\* were made, a cell c is in p.children if and only if c.parent is p.
ContainmentConsistent ==
    \A c \in Cells, p \in Cells : (c \in Elems(children[p])) <=> (parent[c] = p)

\* An insertChild with an explicit index has just put a second child under
\* a parent, after some cell was disposed.
ContainmentWitness ==
    /\ Idle
    /\ op.name = "insertChild"
    /\ op.idx # NoIndex
    /\ Len(children[op.recv]) = 2
    /\ \E c \in Cells : disposed[c]

\* C2. Incidence consistency: whatever insertEdge, removeEdge,
\* removeFromTerminal and dispose calls were made, on any receiver with any
\* edge and role, an edge e is in x.edges if and only if x is e.source or
\* e.target.
IncidenceConsistent ==
    Idle =>
        \A x \in Cells, e \in Cells :
            (e \in Elems(edges[x])) <=> (source[e] = x \/ target[e] = x)

\* C3. No duplicates: after any sequence of the public structural
\* operations no children list and no edges list holds a cell twice.
NoDuplicates ==
    Idle =>
        \A c \in Cells, x \in Cells :
            Count(children[c], x) <= 1 /\ Count(edges[c], x) <= 1

\* C7. Move-to-end: P.insertChild(X) without an index, X already a child
\* of P, leaves P with as many children, X last and present once, and the
\* other children in their previous order.
MoveToEnd ==
    (op.name = "insertChild" /\ op.idx = NoIndex /\ op.arg \in Elems(op.kids)) =>
        /\ children[op.recv] = Without(op.kids, op.arg) \o <<op.arg>>
        /\ Len(children[op.recv]) = Len(op.kids)
        /\ Count(children[op.recv], op.arg) = 1

\* The first of several children has just been moved to the end.
MoveToEndWitness ==
    /\ op.name = "insertChild"
    /\ op.idx = NoIndex
    /\ Len(op.kids) >= 2
    /\ op.kids[1] = op.arg
    /\ op.recv # op.arg
    /\ children[op.recv][Len(op.kids)] = op.arg

\* C4. Disposal completeness: when c.dispose() has run and returned, every
\* cell that was a child of c has parent null and is disposed, and so are
\* their descendants; every edge that was incident on c is disposed, has
\* no source and no target and is in no edges list; and c is no longer
\* among the children of its former parent.
DisposalComplete ==
    (Idle /\ op.name = "dispose" /\ op.ran /\ op.status = "returned") =>
        /\ \A k \in Elems(op.kids) \cup op.desc : parent[k] = Null /\ disposed[k]
        /\ \A e \in Elems(op.inc) :
               /\ disposed[e]
               /\ source[e] = Null
               /\ target[e] = Null
               /\ \A x \in Cells : e \notin Elems(edges[x])
        /\ op.par # Null => op.recv \notin Elems(children[op.par])

\* C5. A disposed cell is fully detached: when c.dispose() has run and
\* returned, c is in no children list and in no edges list, and c.parent,
\* c.source and c.target are null.
DisposedDetached ==
    (Idle /\ op.name = "dispose" /\ op.ran /\ op.status = "returned") =>
        /\ \A x \in Cells :
               op.recv \notin Elems(children[x]) /\ op.recv \notin Elems(edges[x])
        /\ parent[op.recv] = Null
        /\ source[op.recv] = Null
        /\ target[op.recv] = Null

\* C6. Dispose idempotence: a dispose() call on a cell that is already
\* disposed, made from outside or by the forEach of a running disposal,
\* returns at once: no frame is entered, no parent, children, edges,
\* source or target changes, and no cell becomes disposed.
DisposeIdempotent ==
    [][ /\ \A c \in Cells :
              (Dispose(c) /\ disposed[c]) =>
                  /\ stack' = <<>>
                  /\ UNCHANGED <<parent, children, edges, source, target, disposed>>
        /\ (Callee # Null /\ disposed[Callee]) =>
              /\ Len(stack') = Len(stack)
              /\ UNCHANGED <<parent, children, edges, source, target, disposed>>
      ]_vars

\* dispose() was called from outside on a disposed cell that is attached
\* again, under a parent or to a terminal, and has left it so.
DisposeIdempotentWitness ==
    /\ Idle
    /\ op.name = "dispose"
    /\ ~op.ran
    /\ disposed[op.recv]
    /\ parent[op.recv] # Null \/ source[op.recv] # Null

\* C8. Edge attach/detach symmetry: after A.insertEdge(E, true) and then
\* B.insertEdge(E, false), E.source is A, E.target is B and both A.edges
\* and B.edges contain E; after A.removeEdge(E, true) made next, E.source
\* is null, A.edges contains E only if E.target is A, and E.target and
\* B.edges are as they were.
EdgeSymmetry ==
    [][ /\ (op'.name = "insertEdge" /\ op'.chain # Null) =>
              /\ source'[op'.arg] = op'.chain
              /\ target'[op'.arg] = op'.recv
              /\ op'.arg \in Elems(edges'[op'.chain])
              /\ op'.arg \in Elems(edges'[op'.recv])
        /\ (/\ op.name = "insertEdge"
            /\ op.chain # Null
            /\ RemoveEdge(op.chain, op.arg, TRUE)) =>
              /\ source'[op.arg] = Null
              /\ op.arg \in Elems(edges'[op.chain]) => target'[op.arg] = op.chain
              /\ target'[op.arg] = target[op.arg]
              /\ edges'[op.recv] = edges[op.recv]
      ]_vars

\* C9. Self-loop guard: after an A.insertEdge(E, role) call, whatever
\* A.insertEdge(E, .) calls came before it, A.edges contains E exactly
\* once; with E attached to A on both ends, A.removeEdge of one role keeps
\* E in A.edges, and A.removeEdge of the remaining role removes it.
SelfLoopGuard ==
    [][ \A a \in Cells, e \in EdgeArgs, r \in BOOLEAN :
          /\ InsertEdge(a, e, r) => Count(edges'[a], e) = 1
          /\ (/\ op.name = "insertEdge" /\ op.recv = a /\ op.arg = e
              /\ source[e] = a /\ target[e] = a
              /\ RemoveEdge(a, e, r)) => e \in Elems(edges'[a])
          /\ (/\ op.name = "removeEdge" /\ op.recv = a /\ op.arg = e /\ op.role = ~r
              /\ getTerminal(Heap, e, r) = a
              /\ RemoveEdge(a, e, r)) => e \notin Elems(edges'[a])
      ]_vars

GracefulDegradation ==
    [][ LET this == op'.recv
            nothing ==
                \/ /\ op'.name = "removeChildAt"
                   /\ (op'.idx < 0 \/ op'.idx >= getChildCount(Heap, this))
                   /\ removeChildAtResult(Heap, this, op'.idx) = Null
                \/ /\ op'.name = "removeChild"
                   /\ op'.arg \notin Elems(children[this])
                   /\ removeChildAtResult(
                          Heap, this, getChildIndex(Heap, this, op'.arg)) = Null
                \/ /\ op'.name \in {"insertEdge", "removeEdge"}
                   /\ op'.arg = Null
            applies ==
                \/ /\ op'.name = "removeChildAt"
                   /\ (op'.idx < 0 \/ op'.idx >= getChildCount(Heap, this))
                \/ /\ op'.name = "removeChild"
                   /\ op'.arg \notin Elems(children[this])
                \/ /\ op'.name \in {"insertEdge", "removeEdge"}
                   /\ op'.arg = Null
        IN  applies =>
                /\ nothing
                /\ UNCHANGED <<parent, children, edges, source, target>>
      ]_vars

\* removeChild was called with a cell that is a child of another parent,
\* on a receiver that has children of its own.
GracefulDegradationWitness ==
    /\ op.name = "removeChild"
    /\ op.arg # Null
    /\ parent[op.arg] \notin {Null, op.recv}
    /\ op.arg \in Elems(children[parent[op.arg]])
    /\ children[op.recv] # <<>>
    /\ children[op.recv] = op.kids

\* C12. Clone starts detached: c.clone() returns a new cell with no id,
\* parent, source, target, children or edges, in no children list and no
\* edges list; c and every other cell keep their parent, children, edges,
\* source and target.
CloneDetached ==
    [][ op'.name = "clone" =>
          LET f == op'.arg
          IN  /\ id'[f] = Null
              /\ parent'[f] = Null
              /\ source'[f] = Null
              /\ target'[f] = Null
              /\ children'[f] = <<>>
              /\ edges'[f] = <<>>
              /\ \A x \in Cells \ {f} :
                     /\ parent'[x] = parent[x]
                     /\ children'[x] = children[x]
                     /\ edges'[x] = edges[x]
                     /\ source'[x] = source[x]
                     /\ target'[x] = target[x]
              /\ \A x \in Cells :
                     f \notin Elems(children'[x]) /\ f \notin Elems(edges'[x])
      ]_vars

\* A cell with an id, a parent and an incident edge has just been cloned.
CloneWitness ==
    /\ op.name = "clone"
    /\ id[op.recv] # Null
    /\ parent[op.recv] # Null
    /\ edges[op.recv] # <<>>
    /\ source[op.recv] # Null
    /\ parent[op.arg] = Null

\* C13. Containment stays a forest: whatever insertChild, removeChild,
\* removeChildAt and removeFromParent calls were made, with any cell as the
\* child (the receiver itself and its ancestors included), no cell is
\* reached from itself by following parent links.
ContainmentForest ==
    \A c \in Cells : c \notin AncestorSet(Heap, c)

\* C14. Dispose ordering: while a dispose() call on c is still in its
\* child and edge loops, c keeps its parent, its place in the parent's
\* children and both terminals; when c, called from outside, is removed
\* from the parent it had, every child and every incident edge it had when
\* the call was made is disposed;
\* the removal from the parent leaves both terminals as they are, the
\* source is cleared after it, and the target after the source.
DisposeOrdering ==
    [][ /\ \A i \in 1..Len(stack) :
              (stack[i].pc \in {"children", "edges"} /\ i <= Len(stack')) =>
                  LET c == stack[i].cell
                  IN  /\ parent'[c] = parent[c]
                      /\ source'[c] = source[c]
                      /\ target'[c] = target[c]
                      /\ parent[c] # Null =>
                             Count(children'[parent[c]], c)
                                 = Count(children[parent[c]], c)
        /\ (~Idle /\ Top.pc = "parent") =>
              /\ source'[Top.cell] = source[Top.cell]
              /\ target'[Top.cell] = target[Top.cell]
              /\ (Len(stack) = 1 /\ op.par # Null) =>
                     \A k \in Elems(op.kids) \cup Elems(op.inc) : disposed[k]
        /\ (~Idle /\ Top.pc = "source") =>
              /\ parent[Top.cell] = Null
              /\ target'[Top.cell] = target[Top.cell]
        /\ (~Idle /\ Top.pc = "target") =>
              /\ parent[Top.cell] = Null
              /\ source[Top.cell] = Null
      ]_vars

\* The 1-based position of x in arr (x is in arr).
Position(arr, x) == indexOf(arr, x) + 1

\* d lists the subtree below a in depth-first pre-order: it holds exactly
\* the cells below a, each once; each cell is followed at once by the
\* cells below it; and the children of one parent are in children order.
IsPreOrder(h, a, d) ==
    /\ Elems(d) = DescendantSet(h, a)
    /\ Len(d) = Cardinality(DescendantSet(h, a))
    /\ \A i \in 1..Len(d) :
           LET n == Cardinality(DescendantSet(h, d[i]))
           IN  /\ i + n <= Len(d)
               /\ {d[j] : j \in (i + 1)..(i + n)} = DescendantSet(h, d[i])
    /\ \A p \in {a} \cup Elems(d) :
           \A j \in 1..Len(h.children[p]), k \in 1..Len(h.children[p]) :
               j < k => Position(d, h.children[p][j]) < Position(d, h.children[p][k])

\* a lists the strict ancestors of b, the nearest first and the root last.
IsNearestFirst(h, b, a) ==
    /\ (a = <<>>) <=> (h.parent[b] = Null)
    /\ a # <<>> => a[1] = h.parent[b] /\ h.parent[a[Len(a)]] = Null
    /\ \A i \in 1..(Len(a) - 1) : a[i + 1] = h.parent[a[i]]

\* C15. Ancestor/descendant agreement: in every acyclic containment
\* state, A.getDescendants() is the depth-first pre-order listing of the
\* subtree below A, B.getAncestors() lists B's strict ancestors nearest
\* first and root last, for A distinct from B the three tests "B is in
\* A.getDescendants()", "A is in B.getAncestors()" and "A.isAncestor(B)"
\* agree, and isAncestor(null) is false.
AncestorDescendantAgreement ==
    ContainmentForest =>
        /\ \A a \in Cells : IsPreOrder(Heap, a, getDescendants(Heap, a))
        /\ \A b \in Cells : IsNearestFirst(Heap, b, getAncestors(Heap, b))
        /\ \A a \in Cells, b \in Cells :
               a # b =>
                   /\ (b \in Elems(getDescendants(Heap, a)))
                          <=> (a \in Elems(getAncestors(Heap, b)))
                   /\ (a \in Elems(getAncestors(Heap, b)))
                          <=> isAncestor(Heap, a, b)
        /\ \A a \in Cells : ~isAncestor(Heap, a, Null)

\* An acyclic state with a chain of three cells: a is the parent of b and
\* b the parent of c.
AncestorDescendantWitness ==
    /\ ContainmentForest
    /\ \E a \in Cells, b \in Cells, c \in Cells :
           /\ getDescendants(Heap, a) = <<b, c>>
           /\ getAncestors(Heap, c) = <<b, a>>
           /\ isAncestor(Heap, a, c)
           /\ ~isAncestor(Heap, c, a)

\* C16. Sibling order is preserved: an insertChild, removeChild or
\* removeChildAt call leaves every children list, the moved cell apart, as
\* it was; and after P.insertChild(child, i) with an explicit i from 0 to
\* the number of P's other children, child is at position i of P.children.
SiblingOrderPreserved ==
    [][ op'.name \in {"insertChild", "removeChild", "removeChildAt"} =>
          LET P == op'.recv
              moved == IF op'.name = "removeChildAt"
                       THEN removeChildAtResult(Heap, P, op'.idx)
                       ELSE op'.arg
          IN  /\ \A p \in Cells :
                     Without(children'[p], moved) = Without(children[p], moved)
              /\ (/\ op'.name = "insertChild"
                  /\ op'.idx # NoIndex
                  /\ 0 <= op'.idx
                  /\ op'.idx <= Len(Without(children[P], moved))) =>
                     getChildAt(Heap', P, op'.idx) = moved
      ]_vars

\* The last of two children has just been inserted again at position 0 of
\* its own parent, and is now the first.
SiblingOrderWitness ==
    /\ op.name = "insertChild"
    /\ op.idx = 0
    /\ Len(op.kids) = 2
    /\ op.arg = op.kids[2]
    /\ op.recv \notin Elems(op.kids)
    /\ children[op.recv] = <<op.kids[2], op.kids[1]>>

\* C17. Dispose terminates: on every structure built with insertChild and
\* insertEdge, a dispose() call returns (a run of dispose steps ends by
\* returning or by overflowing the call stack, so: it never overflows) and
\* disposes each cell at most once (the body never runs for a cell while
\* it is already running for that cell).
DisposeTerminates ==
    /\ op.status # "thrown"
    /\ \A i \in 1..Len(stack), j \in 1..Len(stack) :
           i # j => stack[i].cell # stack[j].cell

\* C18. The two axes are independent: an insertChild, removeChild,
\* removeChildAt, removeFromParent or setParent call changes no source,
\* target or edges list; an insertEdge, removeEdge, removeFromTerminal or
\* setTerminal call changes no parent or children list; and setTerminal
\* changes only the requested terminal of its receiver.
AxesIndependent ==
    [][ /\ op'.name \in {"insertChild", "removeChild", "removeChildAt",
                         "removeFromParent", "setParent"} =>
               UNCHANGED <<source, target, edges>>
        /\ op'.name \in {"insertEdge", "removeEdge", "removeFromTerminal",
                         "setTerminal"} =>
               UNCHANGED <<parent, children>>
        /\ op'.name = "setTerminal" =>
               /\ getTerminal(Heap', op'.recv, op'.role) = op'.arg
               /\ getTerminal(Heap', op'.recv, ~op'.role)
                      = getTerminal(Heap, op'.recv, ~op'.role)
               /\ \A x \in Cells \ {op'.recv} :
                      source'[x] = source[x] /\ target'[x] = target[x]
               /\ edges' = edges
      ]_vars

\* setTerminal has just given a source to a cell that has a parent and
\* another cell as its target; the new source does not list it.
AxesWitness ==
    /\ op.name = "setTerminal"
    /\ op.role
    /\ op.arg # Null
    /\ source[op.recv] = op.arg
    /\ target[op.recv] \notin {Null, op.arg}
    /\ parent[op.recv] # Null
    /\ op.recv \notin Elems(edges[op.arg])
    /\ op.recv \in Elems(edges[target[op.recv]])

\* The cells a dispose() frame is running for.
OnStack(st) == {st[i].cell : i \in 1..Len(st)}

\* arr without the cells of D, the others in their order.
Outside(arr, D) == SelectSeq(arr, LAMBDA y : y \notin D)

\* What a step of a running c.dispose() leaves to the cell x: its flag,
\* its parent, its children other than those of gone, and its incident
\* edges other than the disposed ones.
LeftAlone(x, gone) ==
    LET D == OnStack(stack) \cup {y \in Cells : disposed'[y]}
    IN  /\ disposed'[x] = disposed[x]
        /\ parent'[x] = parent[x]
        /\ Outside(children'[x], gone) = Outside(children[x], gone)
        /\ Outside(edges'[x], D) = Outside(edges[x], D)

\* C19 as stated. Dispose does not spread to neighbours: c.dispose()
\* disposes only cells linked to c through children and edges lists; it
\* never disposes c's parent or other ancestors, its siblings, its source
\* or target, or the opposite end of an incident edge, and those cells
\* keep their parent, their children other than c and their incident
\* edges other than the disposed ones.
DisposeSparesNeighbours ==
    [][ ~Idle =>
          /\ \A x \in Cells :
                 (disposed'[x] /\ ~disposed[x]) => x \in op.reach \cup {op.recv}
          /\ \A x \in op.nbr : LeftAlone(x, {op.recv})
      ]_vars

\* C19. Dispose does not spread past what is linked: c.dispose() disposes
\* only cells linked to c through children and edges lists; a parent,
\* ancestor, sibling, source, target or opposite end that is not linked
\* to c in that way is not disposed and keeps its parent, its children
\* other than the cells being disposed and its incident edges other than
\* the disposed ones.
DisposeSparesUnlinked ==
    [][ ~Idle =>
          /\ \A x \in Cells :
                 (disposed'[x] /\ ~disposed[x]) => x \in op.reach \cup {op.recv}
          /\ \A x \in op.nbr \ (op.reach \cup {op.recv}) :
                 LeftAlone(x, OnStack(stack) \cup {y \in Cells : disposed'[y]})
      ]_vars

\* A dispose() call has returned that disposed a neighbour linked to the
\* receiver (a sibling that is an edge incident on it) and left alone the
\* receiver's parent, which was not linked to it.
DisposeSparesWitness ==
    /\ Idle
    /\ op.name = "dispose"
    /\ op.ran
    /\ op.status = "returned"
    /\ op.par # Null
    /\ op.par \in op.nbr \ op.reach
    /\ ~disposed[op.par]
    /\ \E y \in op.nbr \cap op.reach : disposed[y]

====
